---- MODULE Spec2Model ----
(***************************************************************************)
(* Model of iv2c: the FrameIterator (frames.rs) and the Renderer playback  *)
(* loop (render.rs).                                                       *)
(*                                                                         *)
(* Frames are identified by their index in the media (0, 1, ...).  An      *)
(* Option<T> is a sequence of length at most one: None is << >> and        *)
(* Some(x) is << x >>.                                                     *)
(*                                                                         *)
(* Time is counted in model units; one second is `Second' units.  The      *)
(* Instant `time_count' of Renderer::run is only ever read through         *)
(* time_count.elapsed() and moved with += and -=, so the state keeps       *)
(* elapsed = now - time_count: the clock adds to it, `time_count += d'     *)
(* subtracts d from it and `time_count -= d' adds d to it.                 *)
(***************************************************************************)
EXTENDS Integers, Sequences, FiniteSets, TLC

\* ------------------------------------------------------------------ bounds
MaxFrames == 3
MaxSkip == 7
MaxFps == 2
Second == 4
MaxElapsed == 2 * Second + 1
MaxDueTicks == MaxFrames + 2

None == << >>
Some(x) == << x >>
Min(a, b) == IF a < b THEN a ELSE b

\* ---------------------------------------------------------- FrameIterator
Kinds == {"Image", "Video", "AnimatedImage"}

\* open_image / open_video / open_gif / open_webp: the iterator as built
new_media(kind, n) ==
  CASE kind = "Image" -> [kind |-> "Image", img |-> Some(0)]
    [] kind = "Video" -> [kind |-> "Video", len |-> n, pos |-> 0]
    [] kind = "AnimatedImage" ->
         [kind |-> "AnimatedImage", len |-> n, current_frame |-> 0]

\* Outcomes of one pull on the video capture: a decoded frame, a read that
\* fails and leaves the stream where it was, a read that consumes a frame
\* which mat_to_dynamic_image cannot convert.
ReadOutcomes == {"frame", "stall", "drop"}

capture_video_frame(m, rd) ==
  IF m.pos < m.len /\ rd = "frame"
    THEN [media |-> [m EXCEPT !.pos = m.pos + 1], frame |-> Some(m.pos)]
    ELSE IF m.pos < m.len /\ rd = "drop"
      THEN [media |-> [m EXCEPT !.pos = m.pos + 1], frame |-> None]
      ELSE [media |-> m, frame |-> None]

\* FrameIterator::next
next_mut_image_kept(m, rd) ==
  CASE m.kind = "Image" -> [media |-> m, frame |-> m.img]
    [] m.kind = "Video" -> capture_video_frame(m, rd)
    [] m.kind = "AnimatedImage" ->
         IF m.current_frame = m.len
           THEN [media |-> m, frame |-> None]
           ELSE [media |-> [m EXCEPT !.current_frame = m.current_frame + 1],
                 frame |-> Some(m.current_frame)]

next_mut_past_end(m, rd) ==
  CASE m.kind = "Image" -> [media |-> [m EXCEPT !.img = None], frame |-> m.img]
    [] m.kind = "Video" -> capture_video_frame(m, rd)
    [] m.kind = "AnimatedImage" ->
         [media |-> [m EXCEPT !.current_frame = m.current_frame + 1],
          frame |-> IF m.current_frame < m.len THEN Some(m.current_frame) ELSE None]

next(m, rd) ==
  CASE m.kind = "Image" -> [media |-> [m EXCEPT !.img = None], frame |-> m.img]
    [] m.kind = "Video" -> capture_video_frame(m, rd)
    [] m.kind = "AnimatedImage" ->
         IF m.current_frame = m.len
           THEN [media |-> m, frame |-> None]
           ELSE [media |-> [m EXCEPT !.current_frame = m.current_frame + 1],
                 frame |-> Some(m.current_frame)]

\* Number of raw reads a skip of n frames can complete on a video: the loop
\* breaks at the first failed or empty read.
SkipReads(m, n) ==
  IF m.kind = "Video" THEN 0 .. Min(n, m.len - m.pos) ELSE {0}

\* FrameIterator::skip_frames; j is the number of reads that succeeded
skip_frames_mut_no_wrap(m, n, j) ==
  CASE m.kind = "Image" -> m
    [] m.kind = "Video" -> [m EXCEPT !.pos = m.pos + j]
    [] m.kind = "AnimatedImage" ->
         [m EXCEPT !.current_frame = Min(m.current_frame + n, m.len)]

skip_frames_mut_sticky_end(m, n, j) ==
  CASE m.kind = "Image" -> m
    [] m.kind = "Video" -> [m EXCEPT !.pos = m.pos + j]
    [] m.kind = "AnimatedImage" ->
         IF m.current_frame = m.len /\ n % m.len = 0
           THEN m
           ELSE [m EXCEPT !.current_frame = (m.current_frame + n) % m.len]

skip_frames(m, n, j) ==
  CASE m.kind = "Image" -> m
    [] m.kind = "Video" -> [m EXCEPT !.pos = m.pos + j]
    [] m.kind = "AnimatedImage" ->
         [m EXCEPT !.current_frame = (m.current_frame + n) % m.len]

\* FrameIterator::reset; the result of the video seek is discarded
reset_mut_to_one(m, seek_ok) ==
  CASE m.kind = "Image" -> m
    [] m.kind = "Video" -> IF seek_ok THEN [m EXCEPT !.pos = 0] ELSE m
    [] m.kind = "AnimatedImage" -> [m EXCEPT !.current_frame = Min(1, m.len)]

reset(m, seek_ok) ==
  CASE m.kind = "Image" -> m
    [] m.kind = "Video" -> IF seek_ok THEN [m EXCEPT !.pos = 0] ELSE m
    [] m.kind = "AnimatedImage" -> [m EXCEPT !.current_frame = 0]

MediaStates ==
  [kind : {"Image"}, img : {None, Some(0)}]
    \cup [kind : {"Video"}, len : 1 .. MaxFrames, pos : 0 .. MaxFrames]
    \cup [kind : {"AnimatedImage"}, len : 1 .. MaxFrames,
          current_frame : 0 .. MaxFrames]

\* ---------------------------------------------------------------- Renderer
FpsValues == (0 - 1) .. MaxFps

\* `inf as u64' saturates: the duration for fps <= 0 is u64::MAX ns, longer
\* than any time the clock of the model reaches.
DurationSaturated == MaxElapsed + Second + 1

\* Renderer::target_frame_duration
target_frame_duration(fps) ==
  LET clamped == IF fps > 0 THEN fps ELSE 0
  IN IF clamped = 0 THEN DurationSaturated ELSE Second \div clamped

\* Renderer::time_to_send_next_frame: (due, frames_to_skip, advance of *time_count)
time_to_send_next_frame_mut_single_step(elapsed_t, d) ==
  IF elapsed_t >= d
    THEN [due |-> TRUE, frames_to_skip |-> (elapsed_t \div d) - 1, advance |-> d]
    ELSE [due |-> FALSE, frames_to_skip |-> 0, advance |-> 0]

time_to_send_next_frame_mut_always_due(elapsed_t, d) ==
  LET skip == IF elapsed_t >= d THEN (elapsed_t \div d) - 1 ELSE 0
  IN [due |-> TRUE, frames_to_skip |-> skip,
      advance |-> IF elapsed_t >= d THEN d * (skip + 1) ELSE 0]

time_to_send_next_frame(elapsed_t, d) ==
  IF elapsed_t >= d
    THEN LET skip == (elapsed_t \div d) - 1
         IN [due |-> TRUE, frames_to_skip |-> skip, advance |-> d * (skip + 1)]
    ELSE [due |-> FALSE, frames_to_skip |-> 0, advance |-> 0]

\* Renderer::should_process_frame
should_process_frame_of(elapsed_t, d) ==
  LET t == time_to_send_next_frame(elapsed_t, d)
  IN IF t.due THEN [due |-> TRUE, frames_to_skip |-> t.frames_to_skip,
                     advance |-> t.advance]
              ELSE [due |-> FALSE, frames_to_skip |-> 0, advance |-> t.advance]

\* Renderer::render_frame: the RenderFrame made from frame x, or the error of
\* the resize backend (ok = FALSE)
render_frame(x, ok) == IF ok THEN Some(x) ELSE None

\* Renderer::render_current_frame: (last_frame, RenderFrame handed out)
render_current_frame_mut_keep_on_error(lf, fr, ok) ==
  IF fr # None
    THEN [last_frame |-> IF ok THEN fr ELSE lf,
          out |-> render_frame(fr[1], ok)]
    ELSE [last_frame |-> lf,
          out |-> IF lf # None THEN render_frame(lf[1], ok) ELSE None]

render_current_frame(lf, fr, ok) ==
  IF fr # None
    THEN [last_frame |-> fr, out |-> render_frame(fr[1], ok)]
    ELSE [last_frame |-> lf,
          out |-> IF lf # None THEN render_frame(lf[1], ok) ELSE None]

\* ------------------------------------------------------------ ImagePipeline
MaxWidth == 2
MaxHeight == 2
MaxDivisor == 2
MaxSource == 4
MaxCustomLen == 3

\* u8::MAX as usize + 1, the divisor of the glyph lookup
U8Range == 256
Luminances == 0 .. U8Range - 1

\* CharMap::chars: the lengths of the preset tables (CHARS1, CHARS2, CHARS3,
\* SOLID and DOTTED, GRADIENT, BLACKWHITE and BW_DOTTED, BRAILLE)
PresetLens == {10, 67, 92, 1, 5, 2, 18}

\* CharMap::custom takes every string: the short ones, the empty one included,
\* and the ones about as long as the luminance range
CustomLens == (0 .. MaxCustomLen) \cup ((U8Range - 1) .. (U8Range + MaxCustomLen))
CharMapLens == PresetLens \cup CustomLens

Resolutions ==
  [kind : {"Fixed"}, w : 0 .. MaxWidth, h : 0 .. MaxHeight]
    \cup [kind : {"Divisor"}, d : 0 .. MaxDivisor]

\* ImagePipeline::new; the table is kept as its length, glyph i standing for
\* char_map[i]
new_pipeline(resolution, char_map_len, new_lines) ==
  [resolution |-> resolution, char_map_len |-> char_map_len, new_lines |-> new_lines]

Pipelines ==
  {new_pipeline(r, l, nl) : r \in Resolutions, l \in CharMapLens, nl \in BOOLEAN}

\* Pixels of the frames the model feeds to the pipeline: <<r, g, b>>
Palette ==
  << <<0, 0, 0>>, <<255, 255, 255>>, <<200, 30, 30>>, <<10, 20, 250>>, <<0, 255, 0>> >>

\* A decoded frame of w x h pixels in row-major order; neighbouring pixels differ
Frame(w, h, seed) ==
  [width |-> w, height |-> h,
   data |-> [i \in 1 .. w * h |-> Palette[((seed + i) % Len(Palette)) + 1]]]

Frames ==
  {Frame(w, h, seed) : w \in 1 .. MaxSource, h \in 1 .. MaxSource, seed \in 0 .. 1}

get_pixel(img, x, y) == img.data[y * img.width + x + 1]

\* Resolution::calc, for a divisor that is not zero
calc_mut_swapped(resolution, img) ==
  IF resolution.kind = "Fixed"
    THEN <<resolution.h, resolution.w>>
    ELSE <<img.width \div resolution.d, img.height \div resolution.d>>

calc(resolution, img) ==
  IF resolution.kind = "Fixed"
    THEN <<resolution.w, resolution.h>>
    ELSE <<img.width \div resolution.d, img.height \div resolution.d>>

\* The nearest-neighbour resampling of the resize backend: the destination
\* pixel takes the source pixel under its centre
nearest(img, dst_w, dst_h) ==
  [width |-> dst_w, height |-> dst_h,
   data |-> [i \in 1 .. dst_w * dst_h |->
               get_pixel(img,
                         ((2 * ((i - 1) % dst_w) + 1) * img.width) \div (2 * dst_w),
                         ((2 * ((i - 1) \div dst_w) + 1) * img.height) \div (2 * dst_h))]]

\* ImagePipeline::set_resolution
set_resolution_mut_ignored(p, resolution) == p

set_resolution(p, resolution) == [p EXCEPT !.resolution = resolution]

\* ImagePipeline::resize; ok is the answer of the resize backend, and
\* Divisor(0) divides by zero in calc
resize(p, img, ok) ==
  IF p.resolution.kind = "Divisor" /\ p.resolution.d = 0
    THEN [outcome |-> "Panic", image |-> None]
    ELSE IF ~ok
      THEN [outcome |-> "Err", image |-> None]
      ELSE LET dst == calc(p.resolution, img)
           IN [outcome |-> "Ok", image |-> Some(nearest(img, dst[1], dst[2]))]

\* DynamicImage::into_luma8: the integer luma of the image crate
rgb_to_luma(px) == (2126 * px[1] + 7152 * px[2] + 722 * px[3]) \div 10000
into_luma8(img) == [img EXCEPT !.data = [i \in DOMAIN img.data |-> rgb_to_luma(img.data[i])]]

\* DynamicImage::into_rgb8().to_vec(): three bytes per pixel, row-major
to_vec(img) ==
  [k \in 1 .. 3 * Len(img.data) |-> img.data[((k - 1) \div 3) + 1][((k - 1) % 3) + 1]]

\* The characters of the text: glyph i is the number i, the two terminators
\* are the negated code points of '\r' and '\n'
CR == 0 - 13
LF == 0 - 10

\* to_ascii, line 82
lookup_idx_mut_div_max(len, lum) == (len * lum) \div (U8Range - 1)

lookup_idx_mut_scaled(len, lum) == ((len - 1) * lum) \div (U8Range - 1)

lookup_idx(len, lum) == (len * lum) \div U8Range

\* to_ascii, lines 79-90: the rows y .. height - 1 of the output
RECURSIVE ascii_rows(_, _, _)
ascii_rows(p, input, y) ==
  IF y >= input.height
    THEN << >>
    ELSE [x \in 1 .. input.width |->
            lookup_idx(p.char_map_len, get_pixel(input, x - 1, y))]
         \o (IF p.new_lines /\ y < input.height - 1 THEN <<CR, LF>> ELSE << >>)
         \o ascii_rows(p, input, y + 1)

\* ImagePipeline::to_ascii; indexing char_map out of its bounds panics
to_ascii(p, input) ==
  IF \E i \in DOMAIN input.data : lookup_idx(p.char_map_len, input.data[i]) >= p.char_map_len
    THEN [outcome |-> "Panic", text |-> << >>]
    ELSE [outcome |-> "Ok", text |-> ascii_rows(p, input, 0)]

\* render_frame, lines 228-230: six zero bytes after pixel i when it ends a row
row_pad_mut_one_char(i, width) ==
  IF (i + 1) % width = 0 THEN <<0, 0, 0>> ELSE << >>

row_pad(i, width) ==
  IF (i + 1) % width = 0 THEN <<0, 0, 0, 0, 0, 0>> ELSE << >>

\* render_frame, lines 224-231: the colours of the pixels i .. of procimage,
\* padded at the row ends
RECURSIVE rgb_info_newline(_, _)
rgb_info_newline(procimage, i) ==
  IF i >= Len(procimage.data)
    THEN << >>
    ELSE procimage.data[i + 1]
         \o row_pad(i, procimage.width)
         \o rgb_info_newline(procimage, i + 1)

\* Renderer::render_frame, on the pixels of the frame
render_frame_pixels(p, img, ok) ==
  LET resized == resize(p, img, ok)
  IN IF resized.outcome # "Ok"
       THEN [outcome |-> resized.outcome, procimage |-> None,
             text |-> << >>, colors |-> << >>]
       ELSE LET procimage == resized.image[1]
                ascii == to_ascii(p, into_luma8(procimage))
            IN [outcome |-> ascii.outcome, procimage |-> resized.image,
                text |-> ascii.text,
                colors |-> IF ascii.outcome # "Ok" THEN << >>
                           ELSE IF p.new_lines THEN rgb_info_newline(procimage, 0)
                           ELSE to_vec(procimage)]

\* ------------------------------------------------------- open_media_from_path
MaxLoopCount == 2
MaxDelay == 2

ImageExts == {"png", "bmp", "ico", "tif", "tiff", "jpg", "jpeg"}
VideoExts == {"mp4", "avi", "webm", "mkv", "mov", "flv", "ogg"}

\* path.extension().and_then(OsStr::to_str): a listed extension, one the match
\* does not list (the match is case-sensitive), or None when the path has no
\* extension or one that is not UTF-8
Exts ==
  {Some(e) : e \in ImageExts \cup VideoExts \cup {"gif", "webp", "PNG", "txt"}} \cup {None}

\* What running ffprobe gives: the process cannot be started, or it runs and
\* its output has no readable r_frame_rate or the rate <<numerator, denominator>>
ProbeOutcomes ==
  {[launched |-> FALSE, rate |-> None]}
    \cup {[launched |-> TRUE, rate |-> r] :
            r \in {None, Some(<<30, 1>>), Some(<<24000, 1001>>)}}

\* The file behind the path: readable and well-formed, absent or unreadable,
\* with a header the decoder rejects, with a frame that cannot be composed
FileStates == {"ok", "missing", "corrupt", "bad_frame"}

\* util::extract_fps
extract_fps(probe) ==
  IF ~probe.launched
    THEN [outcome |-> "Panic", fps |-> None,
          msg |-> "Failed to extract fps from video. Is ffprobe installed?"]
    ELSE [outcome |-> "Ok", fps |-> probe.rate, msg |-> ""]

Opened(m) == [outcome |-> "Ok", media |-> Some(m), msg |-> ""]
Failed(outcome, msg) == [outcome |-> outcome, media |-> None, msg |-> msg]

open_image(file) ==
  CASE file = "ok" -> Opened(new_media("Image", 1))
    [] file = "missing" -> Failed("Err", "io error")
    [] OTHER -> Failed("Err", "Error decoding image")

\* open_video; from_file and is_opened fail with an OpenCV error or the
\* capture is not opened
open_video(utf8, file, n) ==
  IF ~utf8
    THEN Failed("Panic", "Error opening video")
    ELSE IF file = "ok"
      THEN Opened(new_media("Video", n))
      ELSE Failed("Err", "Error opening video")

\* open_gif: n frames are read before the stream ends or a read fails, delay
\* is the sum of their delays; the fps is frames / (max(delay, 1) / 100)
open_gif(file, n, delay) ==
  CASE file = "missing" -> Failed("Err", "Error opening resource") @@ [fps |-> None]
    [] file = "corrupt" -> Failed("Err", "Cannot read GIF header") @@ [fps |-> None]
    [] file = "bad_frame" -> Failed("Err", "Error decoding image") @@ [fps |-> None]
    [] OTHER -> Opened(new_media("AnimatedImage", n))
                  @@ [fps |-> Some(<<100 * n, IF delay > 1 THEN delay ELSE 1>>)]

\* open_webp: the n frames of the animation are decoded once per loop of
\* info.loop_count; data the decoder rejects leaves info zeroed; span is
\* last_timestamp - first_timestamp; the fps is frames / (max(span, 1) / 1000)
open_webp(file, n, span, loop_count) ==
  IF file = "missing"
    THEN Failed("Err", "Error opening resource") @@ [fps |-> None]
    ELSE LET count == IF file = "ok" THEN loop_count * n ELSE 0
         IN Opened(new_media("AnimatedImage", count))
              @@ [fps |-> Some(<<1000 * count,
                                IF count > 0 /\ span > 1 THEN span ELSE 1>>)]

\* open_media_from_path: the fps is probed first, whatever the extension
open_media_from_path(ext, utf8, probe, file, n, delay, loop_count) ==
  LET probed == extract_fps(probe)
      with_fps(r, fps) == r @@ [fps |-> IF r.outcome = "Ok" THEN fps ELSE None]
  IN IF probed.outcome = "Panic"
       THEN Failed("Panic", probed.msg) @@ [fps |-> None]
       ELSE CASE ext # None /\ ext[1] \in ImageExts -> with_fps(open_image(file), None)
              [] ext # None /\ ext[1] \in VideoExts ->
                   with_fps(open_video(utf8, file, n), probed.fps)
              [] ext = Some("gif") -> open_gif(file, n, delay)
              [] ext = Some("webp") -> open_webp(file, n, delay, loop_count)
              [] OTHER -> with_fps(open_video(utf8, file, n), probed.fps)

\* ------------------------------------------------------------------- state
VARIABLES
  media,                 \* Renderer.media : FrameIterator
  last_frame,            \* Renderer.last_frame : Option<DynamicImage>
  fps,                   \* Renderer.render_options.fps
  loop_playback,         \* Renderer.render_options.loop_playback
  allow_frame_skip,      \* argument of Renderer::run
  elapsed,               \* now - time_count
  should_continue,       \* local of run
  should_process_frame,  \* local of run
  frames_to_skip,        \* local of run
  elapsed_time,          \* time_count.elapsed() as read by the last tick
  f,                     \* local of run: the frame pulled in this tick
  frame,                 \* local of run: the RenderFrame of this tick
  pc,                    \* position in run, or "api" when the iterator is driven directly
  result,                \* value returned by run
  due_ticks,             \* number of due ticks so far, counted up to MaxDueTicks + 1
  last_pulled,           \* the most recent frame that media.next() returned
  last_rendered,         \* the most recent pulled frame for which render_frame returned Ok
  call,                  \* the last FrameIterator call: operation, argument, state before,
                         \* result, the operation before it and the next() calls so far
  pipeline,              \* Renderer.pipeline : ImagePipeline
  requested,             \* the resolution of the last set_resolution call of the callback
  job                    \* the last ImagePipeline / render_frame / open_media_from_path
                         \* call: operation, inputs, outcome, outputs

vars == <<media, last_frame, fps, loop_playback, allow_frame_skip, elapsed,
          should_continue, should_process_frame, frames_to_skip, elapsed_time,
          f, frame, pc, result, due_ticks, last_pulled, last_rendered, call, pipeline,
          requested, job>>

config == <<fps, loop_playback, allow_frame_skip>>
history == <<due_ticks, last_pulled, last_rendered, requested>>
locals == <<should_continue, should_process_frame, frames_to_skip,
            elapsed_time, f, frame>>

\* play, main.rs lines 99-105: the pipeline the player builds by default, a
\* fixed resolution and the one-glyph Dotted table
CliPipeline == new_pipeline([kind |-> "Fixed", w |-> MaxWidth, h |-> MaxHeight], 1, FALSE)

\* No pipeline call made yet
NoJob == [op |-> "new"]

NoCall == [op |-> "new", n |-> 0, before |-> None, ret |-> None, prev |-> "new", pulls |-> 0]

\* Renderer::new followed by the first two lines of Renderer::run
Init ==
  /\ \E kind \in Kinds, n \in 1 .. MaxFrames : media = new_media(kind, n)
  /\ last_frame = None
  /\ fps \in FpsValues
  /\ loop_playback \in BOOLEAN
  /\ allow_frame_skip \in BOOLEAN
  /\ elapsed = 0
  /\ should_continue = TRUE
  /\ should_process_frame = FALSE
  /\ frames_to_skip = 0
  /\ elapsed_time = 0
  /\ f = None
  /\ frame = None
  /\ pc = "while"
  /\ result = None
  /\ due_ticks = 0
  /\ last_pulled = None
  /\ last_rendered = None
  /\ call = NoCall
  /\ pipeline = CliPipeline
  /\ requested = None
  /\ job = NoJob

\* The wall clock moves on while run is executing.  The clock is read only by
\* time_count.elapsed() at the start of an iteration, so the time that passes
\* during an iteration is accounted for when the iteration has ended.
ClockAdvance ==
  /\ pc = "while"
  /\ elapsed < MaxElapsed
  /\ elapsed' = elapsed + 1
  /\ UNCHANGED <<media, last_frame, config, locals, pc, result, history, call, pipeline, job>>

\* run, lines 154-155: the loop condition and should_process_frame
Schedule ==
  /\ pc = "while"
  /\ should_continue
  /\ LET s == should_process_frame_of(elapsed, target_frame_duration(fps))
     IN /\ elapsed_time' = elapsed
        /\ should_process_frame' = s.due
        /\ frames_to_skip' = s.frames_to_skip
        /\ elapsed' = elapsed - s.advance
        /\ due_ticks' = IF s.due /\ due_ticks <= MaxDueTicks
                          THEN due_ticks + 1 ELSE due_ticks
  /\ pc' = "frame"
  /\ UNCHANGED <<media, last_frame, config, should_continue, f, frame,
                 result, last_pulled, last_rendered, requested, call, pipeline, job>>

\* run, lines 156-172: skip, pull, replay and render
ProcessFrame_mut_propagate_error ==
  /\ pc = "frame"
  /\ IF should_process_frame
       THEN \E j \in SkipReads(media, frames_to_skip), rd \in ReadOutcomes,
               seek_ok \in BOOLEAN, ok \in BOOLEAN :
              LET skipped == IF allow_frame_skip /\ frames_to_skip > 0
                               THEN skip_frames(media, frames_to_skip, j)
                               ELSE media
                  pulled == next(skipped, rd)
                  replay == loop_playback /\ pulled.frame = None
                  rendered == render_current_frame(last_frame, pulled.frame, ok)
              IN /\ f' = pulled.frame
                 /\ elapsed' = IF replay
                                 THEN elapsed + target_frame_duration(fps)
                                 ELSE elapsed
                 /\ media' = IF replay THEN reset(pulled.media, seek_ok)
                                       ELSE pulled.media
                 /\ last_frame' = rendered.last_frame
                 /\ frame' = rendered.out
                 /\ last_pulled' = IF pulled.frame # None THEN pulled.frame
                                                         ELSE last_pulled
                 /\ last_rendered' = IF pulled.frame # None /\ ok
                                       THEN pulled.frame ELSE last_rendered
                 /\ job' = IF rendered.last_frame # None
                             THEN [op |-> "render_frame",
                                   resolution |-> pipeline.resolution,
                                   outcome |-> IF ok THEN "Ok" ELSE "Err"]
                             ELSE NoJob
       ELSE /\ frame' = None
            /\ job' = NoJob
            /\ UNCHANGED <<f, elapsed, media, last_frame, last_pulled, last_rendered>>
  /\ IF should_process_frame /\ f' # None /\ frame' = None
       THEN pc' = "returned" /\ result' = Some("Err")
       ELSE pc' = "callback" /\ result' = result
  /\ UNCHANGED <<config, should_continue, should_process_frame, frames_to_skip,
                 elapsed_time, due_ticks, requested, call, pipeline>>

ProcessFrame_mut_retry_frame ==
  /\ pc = "frame"
  /\ IF should_process_frame
       THEN \E j \in SkipReads(media, frames_to_skip), rd \in ReadOutcomes,
               seek_ok \in BOOLEAN, ok \in BOOLEAN :
              LET skipped == IF allow_frame_skip /\ frames_to_skip > 0
                               THEN skip_frames(media, frames_to_skip, j)
                               ELSE media
                  pulled == next(skipped, rd)
                  replay == loop_playback /\ pulled.frame = None
                  rendered == render_current_frame(last_frame, pulled.frame, ok)
              IN /\ f' = pulled.frame
                 /\ elapsed' = IF replay
                                 THEN elapsed + target_frame_duration(fps)
                                 ELSE elapsed
                 /\ media' = IF replay THEN reset(pulled.media, seek_ok)
                             ELSE IF pulled.frame # None /\ ~ok THEN media
                             ELSE pulled.media
                 /\ last_frame' = rendered.last_frame
                 /\ frame' = rendered.out
                 /\ last_pulled' = IF pulled.frame # None THEN pulled.frame
                                                         ELSE last_pulled
                 /\ last_rendered' = IF pulled.frame # None /\ ok
                                       THEN pulled.frame ELSE last_rendered
                 /\ job' = IF rendered.last_frame # None
                             THEN [op |-> "render_frame",
                                   resolution |-> pipeline.resolution,
                                   outcome |-> IF ok THEN "Ok" ELSE "Err"]
                             ELSE NoJob
       ELSE /\ frame' = None
            /\ job' = NoJob
            /\ UNCHANGED <<f, elapsed, media, last_frame, last_pulled, last_rendered>>
  /\ pc' = "callback"
  /\ UNCHANGED <<config, should_continue, should_process_frame, frames_to_skip,
                 elapsed_time, result, due_ticks, requested, call, pipeline>>

ProcessFrame_mut_always_skip ==
  /\ pc = "frame"
  /\ IF should_process_frame
       THEN \E j \in SkipReads(media, frames_to_skip), rd \in ReadOutcomes,
               seek_ok \in BOOLEAN, ok \in BOOLEAN :
              LET skipped == IF frames_to_skip > 0
                               THEN skip_frames(media, frames_to_skip, j)
                               ELSE media
                  pulled == next(skipped, rd)
                  replay == loop_playback /\ pulled.frame = None
                  rendered == render_current_frame(last_frame, pulled.frame, ok)
              IN /\ f' = pulled.frame
                 /\ elapsed' = IF replay
                                 THEN elapsed + target_frame_duration(fps)
                                 ELSE elapsed
                 /\ media' = IF replay THEN reset(pulled.media, seek_ok)
                                       ELSE pulled.media
                 /\ last_frame' = rendered.last_frame
                 /\ frame' = rendered.out
                 /\ last_pulled' = IF pulled.frame # None THEN pulled.frame
                                                         ELSE last_pulled
                 /\ last_rendered' = IF pulled.frame # None /\ ok
                                       THEN pulled.frame ELSE last_rendered
                 /\ job' = IF rendered.last_frame # None
                             THEN [op |-> "render_frame",
                                   resolution |-> pipeline.resolution,
                                   outcome |-> IF ok THEN "Ok" ELSE "Err"]
                             ELSE NoJob
       ELSE /\ frame' = None
            /\ job' = NoJob
            /\ UNCHANGED <<f, elapsed, media, last_frame, last_pulled, last_rendered>>
  /\ pc' = "callback"
  /\ UNCHANGED <<config, should_continue, should_process_frame, frames_to_skip,
                 elapsed_time, result, due_ticks, requested, call, pipeline>>

ProcessFrame_mut_no_rewind ==
  /\ pc = "frame"
  /\ IF should_process_frame
       THEN \E j \in SkipReads(media, frames_to_skip), rd \in ReadOutcomes,
               seek_ok \in BOOLEAN, ok \in BOOLEAN :
              LET skipped == IF allow_frame_skip /\ frames_to_skip > 0
                               THEN skip_frames(media, frames_to_skip, j)
                               ELSE media
                  pulled == next(skipped, rd)
                  replay == loop_playback /\ pulled.frame = None
                  rendered == render_current_frame(last_frame, pulled.frame, ok)
              IN /\ f' = pulled.frame
                 /\ elapsed' = elapsed
                 /\ media' = IF replay THEN reset(pulled.media, seek_ok)
                                       ELSE pulled.media
                 /\ last_frame' = rendered.last_frame
                 /\ frame' = rendered.out
                 /\ last_pulled' = IF pulled.frame # None THEN pulled.frame
                                                         ELSE last_pulled
                 /\ last_rendered' = IF pulled.frame # None /\ ok
                                       THEN pulled.frame ELSE last_rendered
                 /\ job' = IF rendered.last_frame # None
                             THEN [op |-> "render_frame",
                                   resolution |-> pipeline.resolution,
                                   outcome |-> IF ok THEN "Ok" ELSE "Err"]
                             ELSE NoJob
       ELSE /\ frame' = None
            /\ job' = NoJob
            /\ UNCHANGED <<f, elapsed, media, last_frame, last_pulled, last_rendered>>
  /\ pc' = "callback"
  /\ UNCHANGED <<config, should_continue, should_process_frame, frames_to_skip,
                 elapsed_time, result, due_ticks, requested, call, pipeline>>

ProcessFrame ==
  /\ pc = "frame"
  /\ IF should_process_frame
       THEN \E j \in SkipReads(media, frames_to_skip), rd \in ReadOutcomes,
               seek_ok \in BOOLEAN, ok \in BOOLEAN :
              LET skipped == IF allow_frame_skip /\ frames_to_skip > 0
                               THEN skip_frames(media, frames_to_skip, j)
                               ELSE media
                  pulled == next(skipped, rd)
                  replay == loop_playback /\ pulled.frame = None
                  rendered == render_current_frame(last_frame, pulled.frame, ok)
              IN /\ f' = pulled.frame
                 /\ elapsed' = IF replay
                                 THEN elapsed + target_frame_duration(fps)
                                 ELSE elapsed
                 /\ media' = IF replay THEN reset(pulled.media, seek_ok)
                                       ELSE pulled.media
                 /\ last_frame' = rendered.last_frame
                 /\ frame' = rendered.out
                 /\ last_pulled' = IF pulled.frame # None THEN pulled.frame
                                                         ELSE last_pulled
                 /\ last_rendered' = IF pulled.frame # None /\ ok
                                       THEN pulled.frame ELSE last_rendered
                 /\ job' = IF rendered.last_frame # None
                             THEN [op |-> "render_frame",
                                   resolution |-> pipeline.resolution,
                                   outcome |-> IF ok THEN "Ok" ELSE "Err"]
                             ELSE NoJob
       ELSE /\ frame' = None
            /\ job' = NoJob
            /\ UNCHANGED <<f, elapsed, media, last_frame, last_pulled, last_rendered>>
  /\ pc' = "callback"
  /\ UNCHANGED <<config, should_continue, should_process_frame, frames_to_skip,
                 elapsed_time, result, due_ticks, requested, call, pipeline>>

\* CallbackState handed to the callback at line 174
CallbackState == [frame |-> frame, should_render |-> should_process_frame]

\* run, lines 174-179: the callback runs, its return value is stored and the
\* locals of the iteration go out of scope
Callback ==
  /\ pc = "callback"
  /\ \E ret \in BOOLEAN : should_continue' = ret
  /\ should_process_frame' = FALSE
  /\ frames_to_skip' = 0
  /\ elapsed_time' = 0
  /\ f' = None
  /\ frame' = None
  /\ job' = NoJob
  /\ pc' = "while"
  /\ UNCHANGED <<media, last_frame, config, elapsed, result, history, call, pipeline>>

\* The sizes a terminal resize event reports
ResizeEvents == {[kind |-> "Fixed", w |-> w, h |-> MaxHeight] : w \in {1, MaxWidth}}

\* TerminalPlayer::callback, lines 57-62: on a resize event the callback calls
\* set_resolution on the pipeline it was handed, before it draws the frame
CallbackResize ==
  /\ pc = "callback"
  /\ \E resolution \in ResizeEvents :
       /\ pipeline' = set_resolution(pipeline, resolution)
       /\ requested' = Some(resolution)
  /\ UNCHANGED <<media, last_frame, config, elapsed, locals, pc, result,
                 due_ticks, last_pulled, last_rendered, call, job>>

\* run, lines 154 and 181: the loop ends and run returns Ok(())
Return ==
  /\ pc = "while"
  /\ ~should_continue
  /\ pc' = "returned"
  /\ result' = Some("Ok")
  /\ UNCHANGED <<media, last_frame, config, elapsed, locals, history, call, pipeline, job>>

Next == ClockAdvance \/ Schedule \/ ProcessFrame \/ Callback \/ Return

Spec == Init /\ [][Next]_vars

\* ------------------- run looping over a FrameList, with a callback that goes on
InitLoop ==
  /\ Init
  /\ media.kind = "AnimatedImage"
  /\ loop_playback
  /\ ~allow_frame_skip
  /\ fps > 0

\* A callback that always returns true
CallbackContinue == Callback /\ should_continue'

\* A due tick that pulls frame i and renders it
Delivers(i) == ProcessFrame /\ f' = Some(i) /\ frame' = Some(i)

NextLoop == ClockAdvance \/ Schedule \/ ProcessFrame \/ CallbackContinue

\* The clock keeps advancing, the loop keeps running, and render_frame does
\* not fail for ever on a frame that is pulled again and again
FairLoop ==
  /\ SF_vars(ClockAdvance)
  /\ WF_vars(Schedule)
  /\ WF_vars(ProcessFrame)
  /\ WF_vars(CallbackContinue)
  /\ \A i \in 0 .. MaxFrames - 1 : SF_vars(Delivers(i))

SpecLoop == InitLoop /\ [][NextLoop]_vars /\ FairLoop

\* -------------------------------------- run with a callback that resizes
InitResize ==
  /\ Init
  /\ fps = 1
  /\ ~allow_frame_skip

NextResize == Next \/ CallbackResize

SpecResize == InitResize /\ [][NextResize]_vars

\* ------------------------------------------- the FrameIterator driven directly
InitFrames ==
  /\ \E kind \in Kinds, n \in 1 .. MaxFrames : media = new_media(kind, n)
  /\ last_frame = None
  /\ fps = 1
  /\ loop_playback = FALSE
  /\ allow_frame_skip = FALSE
  /\ elapsed = 0
  /\ should_continue = TRUE
  /\ should_process_frame = FALSE
  /\ frames_to_skip = 0
  /\ elapsed_time = 0
  /\ f = None
  /\ frame = None
  /\ pc = "api"
  /\ result = None
  /\ due_ticks = 0
  /\ last_pulled = None
  /\ last_rendered = None
  /\ call = NoCall
  /\ pipeline = CliPipeline
  /\ requested = None
  /\ job = NoJob

renderer_vars == <<last_frame, config, elapsed, locals, pc, result, history, pipeline, job>>

CallNext ==
  /\ pc = "api"
  /\ \E rd \in ReadOutcomes :
       LET r == next(media, rd)
       IN /\ media' = r.media
          /\ call' = [op |-> "next", n |-> 0, before |-> Some(media), ret |-> r.frame,
                      prev |-> call.op, pulls |-> Min(call.pulls + 1, 2)]
  /\ UNCHANGED renderer_vars

CallSkipFrames ==
  /\ pc = "api"
  /\ \E n \in 0 .. MaxSkip :
       \E j \in SkipReads(media, n) :
         /\ media' = skip_frames(media, n, j)
         /\ call' = [op |-> "skip_frames", n |-> n, before |-> Some(media), ret |-> None,
                     prev |-> call.op, pulls |-> call.pulls]
  /\ UNCHANGED renderer_vars

CallReset ==
  /\ pc = "api"
  /\ \E seek_ok \in BOOLEAN :
       /\ media' = reset(media, seek_ok)
       /\ call' = [op |-> "reset", n |-> 0, before |-> Some(media), ret |-> None,
                   prev |-> call.op, pulls |-> call.pulls]
  /\ UNCHANGED renderer_vars

NextFrames == CallNext \/ CallSkipFrames \/ CallReset

SpecFrames == InitFrames /\ [][NextFrames]_vars

\* --------------------------------------------- the ImagePipeline driven directly
player_vars == <<media, last_frame, config, elapsed, locals, pc, result, history, call>>

\* The player at rest while the library is called at the entry point `at'
Parked(at) ==
  /\ media = new_media("Image", 1)
  /\ last_frame = None
  /\ fps = 1
  /\ loop_playback = FALSE
  /\ allow_frame_skip = FALSE
  /\ elapsed = 0
  /\ should_continue = TRUE
  /\ should_process_frame = FALSE
  /\ frames_to_skip = 0
  /\ elapsed_time = 0
  /\ f = None
  /\ frame = None
  /\ pc = at
  /\ result = None
  /\ due_ticks = 0
  /\ last_pulled = None
  /\ last_rendered = None
  /\ requested = None
  /\ call = NoCall

\* ImagePipeline::new with any resolution, any table and either new_lines
InitPipeline ==
  /\ Parked("pipeline")
  /\ pipeline \in Pipelines
  /\ job = NoJob

\* Grey images handed to to_ascii: one pixel of every luminance, and the luma
\* of small frames
GrayInputs ==
  {[width |-> 1, height |-> 1, data |-> <<lum>>] : lum \in Luminances}
    \cup {into_luma8(Frame(w, h, seed)) :
            w \in 1 .. MaxWidth, h \in 1 .. MaxHeight, seed \in 0 .. 1}

SetResolution ==
  /\ pc = "pipeline"
  /\ job = NoJob
  /\ \E resolution \in Resolutions :
       /\ pipeline' = set_resolution(pipeline, resolution)
       /\ job' = [op |-> "set_resolution", resolution |-> resolution]
  /\ UNCHANGED player_vars

Resize ==
  /\ pc = "pipeline"
  /\ job = NoJob
  /\ \E img \in Frames, ok \in BOOLEAN :
       LET r == resize(pipeline, img, ok)
       IN job' = [op |-> "resize", img |-> img, outcome |-> r.outcome, image |-> r.image]
  /\ UNCHANGED <<player_vars, pipeline>>

ToAscii ==
  /\ pc = "pipeline"
  /\ job = NoJob
  /\ \E input \in GrayInputs :
       LET r == to_ascii(pipeline, input)
       IN job' = [op |-> "to_ascii", input |-> input, outcome |-> r.outcome,
                  text |-> r.text]
  /\ UNCHANGED <<player_vars, pipeline>>

RenderFrame ==
  /\ pc = "pipeline"
  /\ job = NoJob
  /\ \E img \in Frames, ok \in BOOLEAN :
       LET r == render_frame_pixels(pipeline, img, ok)
       IN job' = [op |-> "render_frame", img |-> img, outcome |-> r.outcome,
                  procimage |-> r.procimage, text |-> r.text, colors |-> r.colors]
  /\ UNCHANGED <<player_vars, pipeline>>

\* The caller drops what the last call returned; the next call starts from
\* the pipeline as it is now
Discard ==
  /\ pc \in {"pipeline", "open"}
  /\ job # NoJob
  /\ job' = NoJob
  /\ UNCHANGED <<player_vars, pipeline>>

NextPipeline == SetResolution \/ Resize \/ ToAscii \/ RenderFrame \/ Discard

SpecPipeline == InitPipeline /\ [][NextPipeline]_vars

\* ------------------------------------------- open_media_from_path called alone
InitOpen ==
  /\ Parked("open")
  /\ pipeline = CliPipeline
  /\ job = NoJob

OpenMedia ==
  /\ pc = "open"
  /\ job = NoJob
  /\ \E ext \in Exts, utf8 \in BOOLEAN, probe \in ProbeOutcomes, file \in FileStates,
        n \in 1 .. MaxFrames, delay \in 0 .. MaxDelay, loop_count \in 0 .. MaxLoopCount :
       LET r == open_media_from_path(ext, utf8, probe, file, n, delay, loop_count)
       IN job' = [op |-> "open", ext |-> ext, utf8 |-> utf8, probe |-> probe,
                  file |-> file, n |-> n, loop_count |-> loop_count,
                  outcome |-> r.outcome, media |-> r.media,
                  fps |-> r.fps, msg |-> r.msg]
  /\ UNCHANGED <<player_vars, pipeline>>

NextOpen == OpenMedia \/ Discard

SpecOpen == InitOpen /\ [][NextOpen]_vars

TypeOK ==
  /\ media \in MediaStates
  /\ last_frame \in {None} \cup {Some(i) : i \in 0 .. MaxFrames - 1}
  /\ fps \in FpsValues
  /\ loop_playback \in BOOLEAN /\ allow_frame_skip \in BOOLEAN
  /\ elapsed \in 0 .. MaxElapsed + Second
  /\ should_continue \in BOOLEAN /\ should_process_frame \in BOOLEAN
  /\ frames_to_skip \in 0 .. MaxElapsed
  /\ pc \in {"while", "frame", "callback", "returned", "api", "pipeline", "open"}
  /\ pipeline \in Pipelines
  /\ due_ticks \in 0 .. MaxDueTicks + 1

\* ------------------------------------------------------------------ claims
IsFrameList == media.kind = "AnimatedImage"
LoopScenario == IsFrameList /\ loop_playback /\ ~allow_frame_skip
DueCallback == pc = "callback" /\ should_process_frame

\* C1 as stated: with a FrameList of N frames, loop_playback and no frame
\* skipping, the i-th due tick (i <= N) pulls and delivers frame i-1 and due
\* tick N+1 delivers frame 0 (nothing is delivered when rendering fails).
C1_Original ==
  (LoopScenario /\ DueCallback /\ due_ticks <= media.len + 1) =>
     frame \in {None, Some(IF due_ticks <= media.len THEN due_ticks - 1 ELSE 0)}

\* C1 amended: with a FrameList of N frames, loop_playback and no frame
\* skipping, the i-th due tick (i <= N) pulls and delivers frame i-1; on due
\* tick N+1 next() returns None, the source is reset without a second pull and
\* the last frame N-1 is rendered again; due tick N+2 pulls and delivers
\* frame 0 (nothing is delivered when rendering fails).
C1_LoopReplay ==
  (LoopScenario /\ DueCallback /\ due_ticks <= media.len + 2) =>
     /\ due_ticks <= media.len =>
          /\ f = Some(due_ticks - 1)
          /\ frame \in {None, Some(due_ticks - 1)}
     /\ due_ticks = media.len + 1 =>
          /\ f = None
          /\ media.current_frame = 0
          /\ frame \in {None, Some(media.len - 1)}
     /\ due_ticks = media.len + 2 =>
          /\ f = Some(0)
          /\ frame \in {None, Some(0)}

C1_Witness ==
  /\ LoopScenario /\ DueCallback
  /\ media.len = 3
  /\ due_ticks = 5
  /\ frame = Some(0)
  /\ last_rendered = Some(0)

\* C2: for a frame duration D > 0 and a tick that reads elapsed = k*D + r with
\* k >= 1 and 0 <= r < D, the tick is due, frames_to_skip = k-1 and time_count
\* moves forward by exactly k*D, leaving r; when elapsed < D the tick is not
\* due, frames_to_skip = 0 and time_count is not moved.
C2_Pacing ==
  LET D == target_frame_duration(fps)
  IN (pc = "frame" /\ D > 0) =>
       /\ \A k \in 1 .. MaxElapsed + Second : \A r \in 0 .. D - 1 :
            elapsed_time = k * D + r =>
              /\ should_process_frame
              /\ frames_to_skip = k - 1
              /\ elapsed = elapsed_time - k * D
              /\ elapsed = r
       /\ elapsed_time < D =>
            /\ ~should_process_frame
            /\ frames_to_skip = 0
            /\ elapsed = elapsed_time

C2_Witness ==
  /\ pc = "frame"
  /\ fps > 0
  /\ should_process_frame
  /\ frames_to_skip = 1
  /\ elapsed_time = 2 * target_frame_duration(fps) + 1
  /\ elapsed = 1

\* C3: when fps <= 0 every tick of run is due (should_render = true).
C3_NonPositiveFpsAlwaysDue ==
  (pc = "frame" /\ fps <= 0) => should_process_frame

\* C4: the callback is invoked once in every tick; on a tick that reads
\* elapsed < target_frame_duration it receives should_render = false and
\* frame = None, and on that tick the source is not pulled, skipped or reset
\* and last_frame is unchanged.
C4_IdleTickState ==
  (pc = "callback" /\ elapsed_time < target_frame_duration(fps)) =>
     CallbackState = [frame |-> None, should_render |-> FALSE]

C4_IdleTickStep ==
  /\ (pc = "while" /\ pc' = "frame" /\ elapsed < target_frame_duration(fps)) =>
       /\ ~should_process_frame'
       /\ media' = media /\ last_frame' = last_frame
  /\ (pc = "frame" /\ ~should_process_frame) =>
       /\ pc' = "callback"
       /\ media' = media /\ last_frame' = last_frame /\ f' = None
  /\ (pc = "frame" /\ should_process_frame) => pc' = "callback"
  /\ pc = "callback" => pc' = "while"
  /\ (pc = "while" /\ pc' # "while") => (pc' = "frame" <=> should_continue)

C4_IdleTick == [] C4_IdleTickState /\ [][C4_IdleTickStep]_vars

C4_Witness ==
  /\ pc = "callback"
  /\ fps > 0
  /\ elapsed_time > 0
  /\ elapsed_time < target_frame_duration(fps)
  /\ last_frame # None
  /\ media # new_media(media.kind, IF media.kind = "Image" THEN 1 ELSE media.len)
  /\ CallbackState = [frame |-> None, should_render |-> FALSE]

\* C5: run returns, with Ok(()), exactly after the first tick whose callback
\* returned false: nothing is pulled and no callback is invoked after that;
\* while the callback returns true the loop goes on whatever the source and
\* the rendering do, and run never returns an error.
C5_StopState ==
  /\ result \in {None, Some("Ok")}
  /\ pc = "returned" <=> result = Some("Ok")
  /\ pc = "returned" => ~should_continue
  /\ ~should_continue => pc \in {"while", "returned"}
  /\ (pc = "while" /\ should_continue) => ENABLED Schedule
  /\ pc = "frame" => ENABLED ProcessFrame
  /\ pc = "callback" => ENABLED Callback
  /\ (pc = "while" /\ ~should_continue) => ENABLED Return

C5_StopStep ==
  /\ ~should_continue =>
       /\ pc' \in {pc, "returned"}
       /\ UNCHANGED <<media, last_frame, locals, history>>
  /\ (pc' = "returned" /\ pc # "returned") => (pc = "while" /\ ~should_continue)

Position(m) ==
  CASE m.kind = "Image" -> IF m.img = None THEN 1 ELSE 0
    [] m.kind = "Video" -> m.pos
    [] m.kind = "AnimatedImage" -> m.current_frame

C6_RenderFailedState ==
  (pc = "callback" /\ f # None /\ frame = None) =>
     /\ CallbackState = [frame |-> None, should_render |-> TRUE]
     /\ should_continue
     /\ result = None
     /\ Position(media) = f[1] + 1

C6_RenderFailedStep ==
  (pc = "frame" /\ pc' # "frame" /\ f' # None /\ frame' = None) =>
     /\ pc' = "callback"
     /\ elapsed' = elapsed
     /\ Position(media') = f'[1] + 1
     /\ last_frame' = render_current_frame(last_frame, f', TRUE).last_frame

C6_RenderFailureAbsorbed ==
  [] C6_RenderFailedState /\ [][C6_RenderFailedStep]_vars

C6_Witness ==
  /\ DueCallback
  /\ f = Some(1)
  /\ frame = None
  /\ last_rendered = Some(0)
  /\ Position(media) = 2

\* C7 as stated: last_frame is always the most recent pulled frame whose
\* render_frame call succeeded.
C7_Original == last_frame = last_rendered

\* C7 amended: last_frame is always the most recent frame pulled from the
\* source, whether its rendering succeeded or failed; on a due tick where no
\* frame is pulled, the frame rendered again and delivered is that frame.
C7_LastFrameFallback ==
  /\ last_frame = last_pulled
  /\ (DueCallback /\ f = None) => frame \in {None, last_pulled}

C7_Witness ==
  /\ DueCallback
  /\ f = None
  /\ last_pulled = Some(1)
  /\ last_rendered = Some(0)
  /\ frame = Some(1)

\* The FrameList on which the last FrameIterator call was made
Before == call.before[1]
FrameListCall(op) == call.op = op /\ media.kind = "AnimatedImage"

\* C8: for a FrameList, after any sequence of next(), skip_frames(n) and
\* reset() calls, current_frame is in [0, frames.len()]; next() returns None
\* exactly when current_frame = frames.len(), and otherwise returns the frame
\* at the cursor and advances the cursor by one.
C8_CursorInvariant ==
  /\ IsFrameList => media.current_frame \in 0 .. media.len
  /\ FrameListCall("next") =>
       /\ call.ret = None <=> Before.current_frame = Before.len
       /\ Before.current_frame = Before.len => media = Before
       /\ Before.current_frame # Before.len =>
            /\ call.ret = Some(Before.current_frame)
            /\ media.current_frame = Before.current_frame + 1
            /\ media.len = Before.len

C8_Witness ==
  /\ FrameListCall("next")
  /\ media.len >= 2
  /\ Before.current_frame = media.len
  /\ media.current_frame = media.len
  /\ call.ret = None

\* C9: for a FrameList of N >= 1 frames, any cursor c in [0, N] and any
\* k >= 0, skip_frames(k) sets the cursor to (c + k) mod N and leaves the
\* frame list as it is.
C9_SkipModulo ==
  FrameListCall("skip_frames") =>
    /\ \A c \in 0 .. Before.len : \A k \in 0 .. MaxSkip :
         (Before.current_frame = c /\ call.n = k) =>
            \E q \in 0 .. MaxSkip + 1 :
              /\ c + k = q * Before.len + media.current_frame
              /\ media.current_frame \in 0 .. Before.len - 1
    /\ media.len = Before.len
    /\ media.kind = Before.kind

C9_Witness ==
  /\ FrameListCall("skip_frames")
  /\ Before.len = 3
  /\ Before.current_frame = 3
  /\ call.n = 5
  /\ media.current_frame = 2

\* C10 as stated: for a FrameList of N >= 1 frames, skip_frames(N) leaves
\* the cursor where it was for every cursor value, the exhausted position
\* cursor = N included.
C10_Original ==
  (FrameListCall("skip_frames") /\ call.n = Before.len) =>
     media.current_frame = Before.current_frame

\* C10 amended: for a FrameList of N >= 1 frames, skip_frames(N) leaves the
\* cursor where it was for every cursor value in [0, N-1]; at the exhausted
\* position cursor = N it moves the cursor to 0.
C10_SkipLength ==
  (FrameListCall("skip_frames") /\ call.n = Before.len) =>
     /\ Before.current_frame < Before.len =>
          media.current_frame = Before.current_frame
     /\ Before.current_frame = Before.len => media.current_frame = 0

C10_Witness ==
  /\ FrameListCall("skip_frames")
  /\ call.n = Before.len
  /\ Before.len >= 2
  /\ Before.current_frame = Before.len
  /\ media.current_frame = 0

\* C11: reset() on a FrameList sets the cursor to 0 from every cursor position,
\* the exhausted one included; the next() that follows a reset() returns the
\* element of index 0; a reset() that follows a reset() changes nothing.
C11_ResetToStart ==
  /\ FrameListCall("reset") =>
       /\ media = [Before EXCEPT !.current_frame = 0]
       /\ reset(media, TRUE) = media
       /\ next(media, "frame").frame = Some(0)
  /\ (FrameListCall("next") /\ call.prev = "reset") =>
       /\ call.ret = Some(0)
       /\ media.current_frame = 1
  /\ (FrameListCall("reset") /\ call.prev = "reset") => media = Before

C11_Witness ==
  /\ FrameListCall("next")
  /\ call.prev = "reset"
  /\ call.ret = Some(0)
  /\ media.len >= 2

\* C12: an Image source yields its frame exactly once: the first next() returns
\* the held frame, every later next() returns None, and skip_frames and reset
\* neither consume nor bring back the frame, whatever the order of the calls.
C12_ImageOnce ==
  media.kind = "Image" =>
    /\ media.img = Some(0) <=> call.pulls = 0
    /\ call.op = "next" => (call.ret = Some(0) <=> call.pulls = 1)
    /\ call.op = "next" => (call.ret = None <=> call.pulls = 2)
    /\ call.op \in {"skip_frames", "reset"} => media = Before

C12_Witness ==
  /\ media.kind = "Image"
  /\ call.op = "next"
  /\ call.prev = "reset"
  /\ call.pulls = 2
  /\ call.ret = None

\* The place in the text of the glyph of pixel (x, y) of an image w pixels
\* wide: a row takes w characters and, with new_lines, two terminators
Stride(w, nl) == w + (IF nl THEN 2 ELSE 0)
TextPos(w, nl, x, y) == y * Stride(w, nl) + x + 1

\* C13: for every luminance v in [0, 255] and every table length L >= 1,
\* to_ascii selects the index floor(L * v / 256); the index lies in [0, L-1]
\* (the lookup never leaves the table), v = 0 selects index 0, and no lower
\* luminance selects a higher index.
C13_GlyphIndex ==
  (job.op = "to_ascii" /\ pipeline.char_map_len >= 1) =>
     /\ job.outcome = "Ok"
     /\ \A x \in 0 .. job.input.width - 1, y \in 0 .. job.input.height - 1 :
          LET v == get_pixel(job.input, x, y)
              len == pipeline.char_map_len
              idx == job.text[TextPos(job.input.width, pipeline.new_lines, x, y)]
          IN /\ idx * U8Range <= len * v
             /\ len * v < (idx + 1) * U8Range
             /\ idx \in 0 .. len - 1
             /\ v = 0 => idx = 0
             /\ \A u \in 0 .. v : lookup_idx(len, u) <= idx

C13_Witness ==
  /\ job.op = "to_ascii"
  /\ pipeline.char_map_len = 92
  /\ job.input.data = <<128>>
  /\ job.text = <<46>>

\* The last to_ascii call converted one pixel of the highest luminance
TopLuminance == job.op = "to_ascii" /\ job.input.data = <<U8Range - 1>>

\* C14 as stated: for any table length L >= 1, lengths above 256 included,
\* luminance 255 selects the last glyph, index L - 1.
C14_Original ==
  (TopLuminance /\ pipeline.char_map_len >= 1) =>
     job.text = <<pipeline.char_map_len - 1>>

\* C14 amended: luminance 255 selects the last glyph, index L - 1, for table
\* lengths 1 <= L <= 256; for L > 256 it selects floor(255 * L / 256), an
\* index below L - 1.
C14_TopBin ==
  (TopLuminance /\ pipeline.char_map_len >= 1) =>
     /\ pipeline.char_map_len <= U8Range =>
          job.text = <<pipeline.char_map_len - 1>>
     /\ pipeline.char_map_len > U8Range =>
          /\ job.text = <<((U8Range - 1) * pipeline.char_map_len) \div U8Range>>
          /\ job.text[1] < pipeline.char_map_len - 1

C14_Witness ==
  /\ TopLuminance
  /\ pipeline.char_map_len = U8Range + 1
  /\ job.text = <<U8Range - 1>>

\* The last render_frame call returned a frame made from at least one pixel
Rendered ==
  /\ job.op = "render_frame"
  /\ job.outcome = "Ok"
  /\ job.procimage[1].width >= 1
  /\ job.procimage[1].height >= 1

\* Number of CR / LF pairs of a text
Terminators(text) == Cardinality({i \in 1 .. Len(text) - 1 : text[i] = CR /\ text[i + 1] = LF})

\* C15: for a resized frame of w x h pixels (w, h >= 1), without new_lines the
\* text has w * h characters and colors has 3 * w * h bytes; with new_lines the
\* text has h - 1 CR / LF pairs and colors has 3 * w * h + 6 * (h - 1) bytes,
\* one six-byte pad after every row except the last.
C15_OutputSizes ==
  Rendered =>
    LET w == job.procimage[1].width
        h == job.procimage[1].height
    IN /\ ~pipeline.new_lines =>
            /\ Len(job.text) = w * h
            /\ Len(job.colors) = 3 * w * h
       /\ pipeline.new_lines =>
            /\ Terminators(job.text) = h - 1
            /\ Len(job.colors) = 3 * w * h + 6 * (h - 1)

C17_TargetSize ==
  (job.op = "resize" /\ job.outcome = "Ok") =>
    LET r == pipeline.resolution
        out == job.image[1]
    IN /\ r.kind = "Fixed" => (out.width = r.w /\ out.height = r.h)
       /\ r.kind = "Divisor" =>
            /\ r.d >= 1
            /\ out.width * r.d <= job.img.width
            /\ job.img.width < (out.width + 1) * r.d
            /\ out.height * r.d <= job.img.height
            /\ job.img.height < (out.height + 1) * r.d
       /\ Len(out.data) = out.width * out.height

C17_Witness ==
  /\ job.op = "resize"
  /\ job.outcome = "Ok"
  /\ pipeline.resolution = [kind |-> "Divisor", d |-> 2]
  /\ job.img.width = 4 /\ job.img.height = 4
  /\ job.image[1].width = 2 /\ job.image[1].height = 2

\* C18: an empty glyph table is rejected when the pipeline is built, so that
\* no frame conversion during playback fails on an empty table.
C18_EmptyTableRejected ==
  ~(/\ pipeline.char_map_len = 0
    /\ job.op = "render_frame"
    /\ job.procimage # None
    /\ job.outcome = "Panic")

\* The extension sends the path to open_video
VideoRoute == job.ext = None \/ job.ext[1] \notin ImageExts \cup {"gif", "webp"}

\* One of the failures of opening: no file, an image or GIF that cannot be
\* decoded, a video that cannot be opened, ffprobe that cannot be started, a
\* path that is not UTF-8 handed to the video backend
OpenFailure ==
  \/ job.file = "missing"
  \/ job.file # "ok" /\ job.ext # Some("webp")
  \/ ~job.probe.launched
  \/ ~job.utf8 /\ VideoRoute

\* C19: every failure while opening media is returned by open_media_from_path
\* as an Err carrying a message; none of them panics.
C19_OpenFailuresReturned ==
  job.op = "open" =>
    /\ job.outcome # "Panic"
    /\ OpenFailure => (job.outcome = "Err" /\ job.msg # "")

\* C20: png, bmp, ico, tif, tiff, jpg, jpeg open as an Image with fps None,
\* whatever the fps probe does; mp4, avi, webm, mkv, mov, flv, ogg and every
\* other or missing extension open as a Video with the probed fps when there
\* is one and None otherwise; gif and webp open as a FrameList with cursor 0
\* and fps Some(average).
C20_SelectionByExtension ==
  (job.op = "open" /\ job.file = "ok") =>
    /\ (job.ext # None /\ job.ext[1] \in ImageExts) =>
         /\ job.outcome = "Ok"
         /\ job.media = Some(new_media("Image", 1))
         /\ job.fps = None
    /\ (VideoRoute /\ job.utf8) =>
         /\ job.outcome = "Ok"
         /\ job.media[1].kind = "Video"
         /\ job.fps = job.probe.rate
    /\ job.ext \in {Some("gif"), Some("webp")} =>
         /\ job.outcome = "Ok"
         /\ job.media[1].kind = "AnimatedImage"
         /\ job.media[1].current_frame = 0
         /\ job.fps # None

\* C21: for a .webp file the FrameList built by open_webp holds the frames of
\* one full loop of the animation, whatever loop count the file declares
\* (0, meaning forever, and counts above 1 included).
C21_WebpOneLoop ==
  (job.op = "open" /\ job.ext = Some("webp") /\ job.file = "ok"
     /\ job.outcome = "Ok") =>
       job.media = Some(new_media("AnimatedImage", job.n))

\* The resolution the next render_frame call has to use: the one of the last
\* set_resolution call, or the one the pipeline was built with
ActiveResolution == IF requested # None THEN requested[1] ELSE CliPipeline.resolution

\* C22, the steps: a set_resolution call of the callback replaces the
\* resolution only and leaves the frame already handed to the callback as it
\* is; every render_frame call resizes with the resolution of the last
\* set_resolution call, if there was one.
C22_ResolutionStep ==
  /\ pipeline' # pipeline =>
       /\ pc = "callback" /\ pc' = "callback"
       /\ pipeline' = [pipeline EXCEPT !.resolution = requested'[1]]
       /\ frame' = frame
       /\ job' = job
       /\ should_process_frame' = should_process_frame
  /\ (pc = "frame" /\ job'.op = "render_frame") =>
       job'.resolution = ActiveResolution

\* C22: set_resolution replaces only the resolution of the pipeline; called
\* by the callback of a tick it leaves the RenderFrame of that tick alone, and
\* the frames of the later ticks are resized with the new resolution until
\* it is changed again.
C22_SetResolution ==
  /\ [](pipeline.resolution = ActiveResolution)
  /\ [](pipeline.char_map_len = CliPipeline.char_map_len
          /\ pipeline.new_lines = CliPipeline.new_lines)
  /\ [][C22_ResolutionStep]_vars

C22_Witness ==
  /\ pc = "callback"
  /\ frame # None
  /\ due_ticks >= 2
  /\ job.op = "render_frame"
  /\ job.resolution = [kind |-> "Fixed", w |-> 1, h |-> MaxHeight]
  /\ job.resolution # CliPipeline.resolution
  /\ requested = Some(job.resolution)

\* The step that handles a due tick: skip, pull, replay, render
DueStep == pc = "frame" /\ should_process_frame /\ pc' = "callback"
SkipPermitted == allow_frame_skip /\ frames_to_skip > 0

\* C23, the steps.  A due tick is scheduled with the anchor moved by
\* (frames_to_skip + 1) * D whether skipping is allowed or not.  When skipping
\* is allowed and frames_to_skip > 0 the pull sees the source after the skip;
\* otherwise the pull sees the source where the last tick left it and moves
\* it by one frame at most.
C23_SkipStep ==
  /\ (pc = "while" /\ pc' = "frame" /\ should_process_frame') =>
       LET D == target_frame_duration(fps)
       IN /\ frames_to_skip' = (elapsed \div D) - 1
          /\ elapsed' = elapsed - (frames_to_skip' + 1) * D
          /\ media' = media
  /\ (DueStep /\ ~SkipPermitted) =>
       /\ f' \in {None, Some(Position(media))}
       /\ media.kind = "AnimatedImage" =>
            /\ f' = None <=> media.current_frame = media.len
            /\ f' # None => media'.current_frame = media.current_frame + 1
       /\ media.kind = "Video" =>
            (f' # None => media'.pos = media.pos + 1)
  /\ (DueStep /\ SkipPermitted) =>
       /\ media.kind = "AnimatedImage" =>
            f' = Some((media.current_frame + frames_to_skip) % media.len)
       /\ media.kind = "Video" =>
            f' \in {None} \cup {Some(i) : i \in media.pos .. media.pos + frames_to_skip}
       /\ media.kind = "Image" => f' = media.img

\* C23: skip_frames(frames_to_skip) is called on a due tick exactly when
\* allow_frame_skip holds and frames_to_skip > 0, before the frame of the tick
\* is pulled; without allow_frame_skip the source is never skipped however
\* late the tick is, while the time anchor still moves by k * D, so the
\* frames are pulled in order without a gap.
C23_SkipOnlyWhenPermitted == [][C23_SkipStep]_vars

C23_Witness ==
  /\ pc = "callback"
  /\ should_process_frame
  /\ allow_frame_skip
  /\ frames_to_skip = 1
  /\ media.kind = "AnimatedImage"
  /\ due_ticks = 1
  /\ f = Some(1)

\* C24, the steps.  On a due tick with loop_playback where the pull returns
\* None the anchor goes back by D and the source is reset; from then until
\* the next tick is scheduled the time since the anchor does not shrink, and
\* a tick scheduled with at least D since the anchor is due.  Without
\* loop_playback a due tick leaves the anchor alone and an exhausted source
\* exhausted.
C24_ReplayStep ==
  LET D == target_frame_duration(fps)
  IN /\ (DueStep /\ loop_playback /\ f' = None) =>
          /\ elapsed' = elapsed + D
          /\ elapsed' >= D
          /\ media.kind = "AnimatedImage" => media'.current_frame = 0
          /\ media.kind = "Video" => (media'.pos = 0 \/ media'.pos >= media.pos)
     /\ (pc \in {"callback", "while"} /\ pc' \in {"callback", "while"}) =>
          elapsed' >= elapsed
     /\ (pc = "while" /\ pc' = "frame" /\ elapsed >= D) => should_process_frame'
     /\ (DueStep /\ ~loop_playback) =>
          /\ elapsed' = elapsed
          /\ (f' = None /\ media.kind = "AnimatedImage") =>
               media'.current_frame = media.len
          /\ media.kind = "Video" => media'.pos >= media.pos

\* The callback of a due tick on which the source was found exhausted and
\* replayed
Replayed == pc = "callback" /\ should_process_frame /\ loop_playback /\ f = None

\* C24: with loop_playback and D > 0, a due tick on which the source returns
\* None moves the time anchor back by exactly D and resets the source, so that
\* the very next tick is due without another wait; without loop_playback
\* neither the rewind nor the reset ever happens.
C24_ImmediateReplay ==
  /\ [](Replayed => elapsed >= target_frame_duration(fps))
  /\ []((Replayed /\ media.kind = "AnimatedImage") => media.current_frame = 0)
  /\ [][C24_ReplayStep]_vars

C24_Witness ==
  /\ Replayed
  /\ media.kind = "AnimatedImage"
  /\ media.len >= 2
  /\ due_ticks = media.len + 1
  /\ media.current_frame = 0
  /\ elapsed >= target_frame_duration(fps)

\* A due tick of a run without loop_playback on a FrameList
NoLoopDueStep == DueStep /\ ~loop_playback /\ media.kind = "AnimatedImage"

\* A due tick pulls a higher index than every pull before it, and an
\* exhausted source returns None and stays exhausted
IncreasingPull ==
  /\ (f' # None /\ last_pulled # None) => f'[1] > last_pulled[1]
  /\ media.current_frame = media.len =>
       (f' = None /\ media'.current_frame = media.len)

TransientFailureStep ==
  /\ DueStep
  /\ media.kind = "Video"
  /\ media.pos + (IF SkipPermitted THEN frames_to_skip ELSE 0) < media.len
  /\ f' = None

\* C26: a pull on a Video that fails although the stream has not ended only
\* leaves the tick without a new frame: the stream is not sent back to its
\* start and the time anchor is not moved, with and without loop_playback.
C26_TransientFailureNoReset ==
  [][TransientFailureStep => (media'.pos >= media.pos /\ elapsed' = elapsed)]_vars

\* Number of frames a FrameList or an Image holds when opened
FrameCount(m) == IF m.kind = "AnimatedImage" THEN m.len ELSE 1

\* A run without loop_playback and without frame skipping whose FrameList or
\* Image has yielded its last frame
ExhaustedNoLoop ==
  /\ ~loop_playback
  /\ ~allow_frame_skip
  /\ media.kind \in {"AnimatedImage", "Image"}
  /\ Position(media) = FrameCount(media)

\* C27, the steps: an exhausted source and last_frame do not change any more,
\* and run returns only after the callback has returned false.
C27_SteadyStep ==
  /\ ExhaustedNoLoop => (media' = media /\ last_frame' = last_frame)
  /\ should_continue' # should_continue => pc = "callback"
  /\ (pc # "returned" /\ pc' = "returned") =>
       (~should_continue /\ result' = Some("Ok"))

\* C27: without loop_playback and frame skipping, once a FrameList of N >= 1
\* frames (or an Image) has yielded its last frame it stays exhausted,
\* last_frame stays that final frame, and every later due tick has
\* should_render = true and delivers the final frame rendered again (nothing
\* when rendering fails); the loop does not stop by itself.
C27_ExhaustedSteadyState ==
  /\ [](ExhaustedNoLoop => last_frame = Some(FrameCount(media) - 1))
  /\ []((ExhaustedNoLoop /\ DueCallback /\ f = None) =>
          /\ CallbackState.should_render
          /\ CallbackState.frame \in {None, Some(FrameCount(media) - 1)})
  /\ [][C27_SteadyStep]_vars

C27_Witness ==
  /\ ExhaustedNoLoop
  /\ DueCallback
  /\ media.kind = "AnimatedImage"
  /\ media.len >= 2
  /\ due_ticks >= media.len + 2
  /\ f = None
  /\ frame = Some(media.len - 1)

\* Every frame of the list is pulled and delivered on infinitely many due ticks
EveryFrameAgain ==
  \A i \in 0 .. MaxFrames - 1 :
    []<>(i < media.len => (DueCallback /\ f = Some(i) /\ frame = Some(i)))

\* The pulls that return a frame follow the cyclic order 0, 1, ..., N-1, 0, ...
CyclicPull ==
  DueStep =>
    /\ (f' # None /\ last_pulled = None) => f' = Some(0)
    /\ (f' # None /\ last_pulled # None) => f' = Some((last_pulled[1] + 1) % media.len)

====
